---- MODULE Spec2Model ----
(***************************************************************************)
(* Model of Visualization/report_generator.py: the random coordinate       *)
(* generator, the horizon-drill image report and the map exporter.         *)
(*                                                                         *)
(* Numbers.  Coordinates are floats in the program.  The model keeps them  *)
(* on a fixed-point grid: random.random() yields k / RandRes for           *)
(* k in 0 .. RandRes-1 (the half-open interval [0, 1)), and a generated    *)
(* coordinate is stored multiplied by RandRes, so that                     *)
(* a + (b-a) * random() becomes the integer a*RandRes + (b-a)*k.           *)
(*                                                                         *)
(* Random generator.  The module-level generator of `random` is a          *)
(* deterministic function of its state; the model keeps the state in rng,  *)
(* each draw returns the state and advances it.  Its state at start-up is  *)
(* seeded from the operating system, hence arbitrary in Init.              *)
(***************************************************************************)
EXTENDS Integers, Sequences, FiniteSets, TLC

VARIABLES
    IS_RANDOM_SEED_ACTIVE,  \* report_constants: reseed on every generator call
    THRESHOLD_MODIFYER,     \* report_constants: longitude scale of the threshold
    rng,                    \* state of the global generator of module random
    rngBefore,              \* its state when the last operation was called
    op,                     \* the operation that ran last
    args,                   \* its arguments
    error,                  \* the exception it raised, "none" when it returned
    call,                   \* arguments of the generate_random_coordinates call it made
    result,                 \* list returned by that call
    markers,                \* markers added to the map by the operation
    files,                  \* files written by the operation
    printed,                \* lines printed by the operation
    firstCall               \* first direct generate_random_coordinates call that returned

vars == <<IS_RANDOM_SEED_ACTIVE, THRESHOLD_MODIFYER, rng, rngBefore, op, args, error,
          call, result, markers, files, printed, firstCall>>

---------------------------------------------------------------------------
(* Bounds of the model *)

RandRes == 3
MaxCoord == 1
MaxNumber == 2
MaxRows == 2
MaxColumns == 2

(* Input domains *)

CoordValues == 0..MaxCoord
CenterSet == [1..2 -> CoordValues] \cup {<<>>, <<1>>, <<1, 1, 1>>}
ThresholdSet == {-1, 1}
NumberSet == 0..MaxNumber
ModifierSet == {1, 2}

ColumnNames == {"speed", "depth"}
ColumnLists == UNION {[1..n -> ColumnNames] : n \in 0..MaxColumns}
NotADataFrame == [kind |-> "list"]
DataFrames == {[kind |-> "DataFrame", columns |-> s] : s \in SUBSET ColumnNames}

IntId(n) == [type |-> "int", text |-> n]
StrId(n) == [type |-> "str", text |-> n]
WellIds == {IntId(1), StrId(1), IntId(2)}
TargetLabels == WellIds \cup {IntId(3)}
WellIdColumns == UNION {[1..n -> WellIds] : n \in 0..MaxRows}

ExportPaths == {"export"}
ExportNames == {"report", "map"}

NoCall == [made |-> FALSE]

---------------------------------------------------------------------------
(* report_constants (not part of the sources at hand) *)

RANDOM_SEED == 42
MAP_CENTER == <<2, 1>>
RANDOM_COORDS_THRESHOLD == 1
TARGET_COLOR == "red"
OTHERS_COLOR == "blue"

---------------------------------------------------------------------------
(* module random *)

\* random.seed(seed): the state is a function of the seed alone
Seed(seed) == seed % RandRes

\* one draw of random.random(): k / RandRes, and the state after it
Random(s) == [k |-> s, rng |-> (s + 1) % RandRes]

\* a slip: a + (b+a) * random()
UniformSignSlip(a, b, k) == a * RandRes + (b + a) * k

\* random.uniform(a, b) == a + (b-a) * random(), scaled by RandRes
Uniform(a, b, k) == a * RandRes + (b - a) * k

---------------------------------------------------------------------------
(* generate_random_coordinates *)

\* a slip: coordinate >= 0.0, as the assertion's message has it
ValidateNonNegative(center, number) ==
    /\ number >= 1
    /\ Len(center) = 2
    /\ \A i \in 1..Len(center) : center[i] >= 0

\* a slip: number >= 0
ValidateAllowsZero(center, number) ==
    /\ number >= 0
    /\ Len(center) = 2
    /\ \A i \in 1..Len(center) : center[i] > 0

\* the three assertions
Validate(center, number) ==
    /\ number >= 1
    /\ Len(center) = 2
    /\ \A i \in 1..Len(center) : center[i] > 0

\* a slip: the seed is never applied
NotSeeded(s) == s

\* if c.IS_RANDOM_SEED_ACTIVE: random.seed(c.RANDOM_SEED)
SeededState(s) == IF IS_RANDOM_SEED_ACTIVE THEN Seed(RANDOM_SEED) ELSE s

\* a slip: range(number - 1)
RECURSIVE DrawCoordinatesShort(_, _, _, _)
DrawCoordinatesShort(center, threshold, number, s) ==
    IF number <= 1
    THEN [coordinates |-> <<>>, rng |-> s]
    ELSE LET d1 == Random(s)
             d2 == Random(d1.rng)
             random_latitude ==
                 Uniform(center[1] - threshold, center[1] + threshold, d1.k)
             random_longtitude ==
                 Uniform(center[2] - threshold * THRESHOLD_MODIFYER,
                         center[2] + threshold * THRESHOLD_MODIFYER, d2.k)
             rest == DrawCoordinatesShort(center, threshold, number - 1, d2.rng)
         IN  [coordinates |->
                  <<<<random_latitude, random_longtitude>>>> \o rest.coordinates,
              rng |-> rest.rng]

\* a slip: coordinates.insert(0, ...) in place of append
RECURSIVE DrawCoordinatesReversed(_, _, _, _)
DrawCoordinatesReversed(center, threshold, number, s) ==
    IF number <= 0
    THEN [coordinates |-> <<>>, rng |-> s]
    ELSE LET d1 == Random(s)
             d2 == Random(d1.rng)
             random_latitude ==
                 Uniform(center[1] - threshold, center[1] + threshold, d1.k)
             random_longtitude ==
                 Uniform(center[2] - threshold * THRESHOLD_MODIFYER,
                         center[2] + threshold * THRESHOLD_MODIFYER, d2.k)
             rest == DrawCoordinatesReversed(center, threshold, number - 1, d2.rng)
         IN  [coordinates |->
                  rest.coordinates \o <<<<random_latitude, random_longtitude>>>>,
              rng |-> rest.rng]

\* the loop: number times, draw a latitude, then a longitude
RECURSIVE DrawCoordinates(_, _, _, _)
DrawCoordinates(center, threshold, number, s) ==
    IF number <= 0
    THEN [coordinates |-> <<>>, rng |-> s]
    ELSE LET d1 == Random(s)
             d2 == Random(d1.rng)
             random_latitude ==
                 Uniform(center[1] - threshold, center[1] + threshold, d1.k)
             random_longtitude ==
                 Uniform(center[2] - threshold * THRESHOLD_MODIFYER,
                         center[2] + threshold * THRESHOLD_MODIFYER, d2.k)
             rest == DrawCoordinates(center, threshold, number - 1, d2.rng)
         IN  [coordinates |->
                  <<<<random_latitude, random_longtitude>>>> \o rest.coordinates,
              rng |-> rest.rng]

GenerateRandomCoordinates(center, threshold, number, s) ==
    IF ~Validate(center, number)
    THEN [error |-> "AssertionError", coordinates |-> <<>>, rng |-> s]
    ELSE LET drawn == DrawCoordinates(center, threshold, number, SeededState(s))
         IN  [error |-> "none", coordinates |-> drawn.coordinates,
              rng |-> drawn.rng]

\* the first direct call that returned is remembered, with the generator
\* state it started from, to compare later calls with it
Remember(c, r) ==
    IF firstCall = NoCall /\ r.error = "none"
    THEN [made |-> TRUE, call |-> c, result |-> r.coordinates, rng |-> rng]
    ELSE firstCall

---------------------------------------------------------------------------
(* os.path.join for a relative second component, then the extension *)

PathJoin(path, name) ==
    IF path = "" THEN name ELSE path \o "/" \o name

---------------------------------------------------------------------------
(* generate_horizon_drill_image *)

\* assert isinstance(data, pd.DataFrame)
IsDataFrame(data) == data.kind = "DataFrame"

\* a slip: only the first column is looked up
ColumnsPresentFirstOnly(data, columns) ==
    Len(columns) = 0 \/ columns[1] \in data.columns

\* for column in columns: assert column in data.columns
ColumnsPresent(data, columns) ==
    \A i \in 1..Len(columns) : columns[i] \in data.columns

\* plt.subplots(nrows, 1, sharex=True, ...) with the default squeeze=True:
\* no rows is refused, one row gives the Axes object itself, more rows an
\* array of Axes
Subplots(nrows) ==
    IF nrows < 1 THEN [error |-> "ValueError", axes |-> "none"]
    ELSE IF nrows = 1 THEN [error |-> "none", axes |-> "Axes"]
    ELSE [error |-> "none", axes |-> "ndarray"]

\* the plotting loop: axes[num] needs an array, data[column_name] the column
PlotColumns(data, columns, axes) ==
    IF Len(columns) = 0 THEN "none"
    ELSE IF axes # "ndarray" THEN "TypeError"
    ELSE IF \E i \in 1..Len(columns) : columns[i] \notin data.columns
         THEN "KeyError"
    ELSE "none"

GenerateHorizonDrillImage(data, export_path, export_name, columns) ==
    LET failed(e) == [error |-> e, files |-> <<>>, printed |-> <<>>]
        report_full_path == PathJoin(export_path, export_name) \o ".png"
    IN  IF ~IsDataFrame(data) THEN failed("AssertionError")
        ELSE IF ~ColumnsPresent(data, columns) THEN failed("AssertionError")
        ELSE LET fig == Subplots(Len(columns))
             IN  IF fig.error # "none" THEN failed(fig.error)
                 ELSE LET plotted == PlotColumns(data, columns, fig.axes)
                      IN  IF plotted # "none" THEN failed(plotted)
                          ELSE [error |-> "none",
                                files |-> <<report_full_path>>,
                                printed |-> <<"Drilling report exported to:",
                                              report_full_path>>]

---------------------------------------------------------------------------
(* save_map *)

\* str(well_id): the text of the label, whatever its type
Str(label) == label.text

\* a slip: the column itself, duplicates kept
UniqueKeepsDuplicates(column) == column

\* Series.unique(): the distinct values in order of first appearance
RECURSIVE Unique(_)
Unique(column) ==
    IF Len(column) = 0 THEN <<>>
    ELSE LET init == Unique(SubSeq(column, 1, Len(column) - 1))
             last == column[Len(column)]
         IN  IF \E i \in 1..Len(init) : init[i] = last
             THEN init
             ELSE Append(init, last)

\* color of the marker of one well
MarkerColor(well_id, target_well_label) ==
    IF Str(well_id) = Str(target_well_label) THEN TARGET_COLOR
    ELSE OTHERS_COLOR

\* add_marker: a text icon with the color and the label, at [lat, long]
AddMarker(lat, long, color, well_id) ==
    [location |-> <<lat, long>>,
     html |-> [color |-> color, text |-> Str(well_id)]]

Min(a, b) == IF a <= b THEN a ELSE b

SaveMap(data, target_well_label, export_path, export_name, s) ==
    LET unique == Unique(data)
        c == [made |-> TRUE, center |-> MAP_CENTER,
              threshold |-> RANDOM_COORDS_THRESHOLD, number |-> Len(unique)]
        r == GenerateRandomCoordinates(c.center, c.threshold, c.number, s)
        map_export_path == PathJoin(export_path, export_name) \o ".html"
        \* zip(unique, coordinates) stops at the shorter of the two
        added == [i \in 1..Min(Len(unique), Len(r.coordinates)) |->
                     AddMarker(r.coordinates[i][1], r.coordinates[i][2],
                               MarkerColor(unique[i], target_well_label),
                               unique[i])]
    IN  IF r.error # "none"
        THEN [error |-> r.error, call |-> c, coordinates |-> <<>>,
              rng |-> r.rng, markers |-> <<>>, files |-> <<>>,
              printed |-> <<>>]
        ELSE [error |-> "none", call |-> c, coordinates |-> r.coordinates,
              rng |-> r.rng, markers |-> added,
              files |-> <<map_export_path>>,
              printed |-> [i \in 1..Len(added) |-> added[i].html]
                          \o <<"Drilling map exported to:", map_export_path>>]

---------------------------------------------------------------------------

Init ==
    /\ IS_RANDOM_SEED_ACTIVE \in BOOLEAN
    /\ THRESHOLD_MODIFYER \in ModifierSet
    /\ rng \in 0..(RandRes - 1)
    /\ rngBefore = rng
    /\ op = "none"
    /\ args = <<>>
    /\ error = "none"
    /\ call = NoCall
    /\ result = <<>>
    /\ markers = <<>>
    /\ files = <<>>
    /\ printed = <<>>
    /\ firstCall = NoCall

CallGenerateRandomCoordinates ==
    \E center \in CenterSet, threshold \in ThresholdSet, number \in NumberSet :
        \E r \in {GenerateRandomCoordinates(center, threshold, number, rng)} :
            /\ op' = "generate_random_coordinates"
            /\ args' = [made |-> TRUE, center |-> center,
                        threshold |-> threshold, number |-> number]
            /\ call' = args'
            /\ error' = r.error
            /\ result' = r.coordinates
            /\ rng' = r.rng
            /\ rngBefore' = rng
            /\ firstCall' = Remember(args', r)
            /\ markers' = <<>>
            /\ files' = <<>>
            /\ printed' = <<>>
            /\ UNCHANGED <<IS_RANDOM_SEED_ACTIVE, THRESHOLD_MODIFYER>>

CallGenerateHorizonDrillImage ==
    \E data \in DataFrames \cup {NotADataFrame}, export_path \in ExportPaths,
       export_name \in ExportNames, columns \in ColumnLists :
        \E r \in {GenerateHorizonDrillImage(data, export_path, export_name,
                                            columns)} :
            /\ op' = "generate_horizon_drill_image"
            /\ args' = [data |-> data, export_path |-> export_path,
                        export_name |-> export_name, columns |-> columns]
            /\ error' = r.error
            /\ files' = r.files
            /\ printed' = r.printed
            /\ call' = NoCall
            /\ result' = <<>>
            /\ markers' = <<>>
            /\ rngBefore' = rng
            /\ UNCHANGED <<IS_RANDOM_SEED_ACTIVE, THRESHOLD_MODIFYER, rng,
                           firstCall>>

CallSaveMap ==
    \E data \in WellIdColumns, target_well_label \in TargetLabels,
       export_path \in ExportPaths, export_name \in ExportNames :
        \E r \in {SaveMap(data, target_well_label, export_path, export_name,
                          rng)} :
            /\ op' = "save_map"
            /\ args' = [data |-> data, target_well_label |-> target_well_label,
                        export_path |-> export_path, export_name |-> export_name]
            /\ error' = r.error
            /\ call' = r.call
            /\ result' = r.coordinates
            /\ rng' = r.rng
            /\ rngBefore' = rng
            /\ markers' = r.markers
            /\ files' = r.files
            /\ printed' = r.printed
            /\ UNCHANGED <<IS_RANDOM_SEED_ACTIVE, THRESHOLD_MODIFYER, firstCall>>

Next ==
    \/ CallGenerateRandomCoordinates
    \/ CallGenerateHorizonDrillImage
    \/ CallSaveMap

Spec == Init /\ [][Next]_vars

(* The operations share nothing but the generator state, and Init draws that
   state from all its values: the behaviours of one operation from Init are
   its behaviours after any run of the others.  Each group of properties is
   checked under the specification of the operation it is about. *)
SpecCoordinates == Init /\ [][CallGenerateRandomCoordinates]_vars
SpecImage == Init /\ [][CallGenerateHorizonDrillImage]_vars
SpecMap == Init /\ [][CallSaveMap]_vars

---------------------------------------------------------------------------
(* Properties of generate_random_coordinates, under SpecCoordinates *)

Returned == call.made /\ error = "none"

\* C1: a call that passes validation returns exactly `number` elements, each
\* a pair (latitude, longitude).
ReturnsNumberPairs ==
    Returned =>
        /\ Len(result) = call.number
        /\ \A i \in 1..Len(result) : Len(result[i]) = 2

ReturnsNumberPairsWitness ==
    Returned /\ call.number >= 2 /\ Len(result) = call.number

\* the two ends of the latitude and of the longitude interval, on the grid
LatLow == (call.center[1] - call.threshold) * RandRes
LatHigh == (call.center[1] + call.threshold) * RandRes
LongLow == (call.center[2] - call.threshold * THRESHOLD_MODIFYER) * RandRes
LongHigh == (call.center[2] + call.threshold * THRESHOLD_MODIFYER) * RandRes

Between(x, a, b) == (a <= x /\ x <= b) \/ (b <= x /\ x <= a)

\* C2, as stated: every returned pair has center[0] - threshold <= lat <=
\* center[0] + threshold and center[1] - threshold*THRESHOLD_MODIFYER <= long
\* <= center[1] + threshold*THRESHOLD_MODIFYER.
WithinThresholdBox ==
    Returned =>
        \A i \in 1..Len(result) :
            /\ LatLow <= result[i][1] /\ result[i][1] <= LatHigh
            /\ LongLow <= result[i][2] /\ result[i][2] <= LongHigh

\* C2, amended: every returned latitude lies between center[0] - threshold
\* and center[0] + threshold, and every longitude between center[1] -
\* threshold*THRESHOLD_MODIFYER and center[1] + threshold*THRESHOLD_MODIFYER,
\* the two ends taken in either order (a negative threshold swaps them).
WithinEndpoints ==
    Returned =>
        \A i \in 1..Len(result) :
            /\ Between(result[i][1], LatLow, LatHigh)
            /\ Between(result[i][2], LongLow, LongHigh)

WithinEndpointsWitness ==
    /\ Returned
    /\ call.threshold < 0
    /\ \E i \in 1..Len(result) : result[i][1] > LatHigh /\ result[i][2] > LongHigh

\* C3: with the seed active, a call with the arguments of an earlier call
\* returns the list the earlier call returned, whatever the generator state
\* each of them started from.
SeedDeterminism ==
    (IS_RANDOM_SEED_ACTIVE /\ firstCall.made /\ Returned
        /\ call = firstCall.call)
    => result = firstCall.result

SeedDeterminismWitness ==
    /\ IS_RANDOM_SEED_ACTIVE /\ firstCall.made /\ Returned
    /\ call = firstCall.call
    /\ call.number >= 2
    /\ rngBefore # firstCall.rng
    /\ rngBefore # Seed(RANDOM_SEED)

IsPrefix(short, long) ==
    Len(short) <= Len(long) /\ SubSeq(long, 1, Len(short)) = short

\* C10: a call that raises leaves the generator state as it found it; with
\* the seed active, of two calls with the same center and threshold the
\* result for the smaller number is the beginning of the other result.
GeneratorFrameAndPrefix ==
    /\ (call.made /\ error # "none") => rng = rngBefore
    /\ (IS_RANDOM_SEED_ACTIVE /\ firstCall.made /\ Returned
           /\ call.center = firstCall.call.center
           /\ call.threshold = firstCall.call.threshold)
       => IF firstCall.call.number <= call.number
          THEN IsPrefix(firstCall.result, result)
          ELSE IsPrefix(result, firstCall.result)

GeneratorFrameAndPrefixWitness ==
    /\ IS_RANDOM_SEED_ACTIVE /\ firstCall.made /\ Returned
    /\ call.center = firstCall.call.center
    /\ call.threshold = firstCall.call.threshold
    /\ firstCall.call.number < call.number
    /\ rngBefore # firstCall.rng
    /\ IsPrefix(firstCall.result, result)

---------------------------------------------------------------------------
(* Properties of generate_horizon_drill_image, under SpecImage *)

ImageCalled == op = "generate_horizon_drill_image"

ImageInputValid ==
    /\ args.data.kind = "DataFrame"
    /\ \A i \in 1..Len(args.columns) : args.columns[i] \in args.data.columns

\* C5: for every table and every list of columns of the table, of any length
\* from 0 on, the call returns and writes exactly one file, at
\* join(export_path, export_name) + ".png".
ImageWritesOneFile ==
    (ImageCalled /\ ImageInputValid) =>
        /\ error = "none"
        /\ files = <<PathJoin(args.export_path, args.export_name) \o ".png">>

\* C6: when data is not a table or a requested column is absent, the call
\* raises from its assertions, with no file written and no path printed.
ImageRejectsInvalid ==
    (ImageCalled /\ ~ImageInputValid) =>
        /\ error = "AssertionError"
        /\ files = <<>>
        /\ printed = <<>>

ImageRejectsInvalidWitness ==
    /\ ImageCalled
    /\ args.data.kind = "DataFrame"
    /\ Len(args.columns) >= 2
    /\ args.columns[1] \in args.data.columns
    /\ args.columns[2] \notin args.data.columns
    /\ error = "AssertionError"

---------------------------------------------------------------------------
(* Properties of save_map, under SpecMap *)

MapCalled == op = "save_map"

WellIdsOf(column) == {column[i] : i \in 1..Len(column)}

TargetColored == {i \in 1..Len(markers) : markers[i].html.color = TARGET_COLOR}

\* C7: for a table with at least one row the call returns, the map has as
\* many markers as the column has distinct identifiers, every identifier
\* labels a marker of its own, and one HTML file is written, at
\* join(export_path, export_name) + ".html".
MapOneMarkerPerWell ==
    (MapCalled /\ Len(args.data) >= 1) =>
        /\ error = "none"
        /\ Len(markers) = Cardinality(WellIdsOf(args.data))
        /\ \E f \in [WellIdsOf(args.data) -> 1..Len(markers)] :
              /\ \A v, w \in WellIdsOf(args.data) : f[v] = f[w] => v = w
              /\ \A v \in WellIdsOf(args.data) : markers[f[v]].html.text = v.text
        /\ files = <<PathJoin(args.export_path, args.export_name) \o ".html">>

MapOneMarkerPerWellWitness ==
    /\ MapCalled /\ error = "none"
    /\ Len(args.data) > Cardinality(WellIdsOf(args.data))
    /\ Len(markers) = Cardinality(WellIdsOf(args.data))
    /\ Len(files) = 1

\* C8: a marker has the target color if and only if its well identifier is
\* the target identifier, the number 1 and the text "1" being two
\* identifiers; so at most one marker has the target color.
MapOnlyTargetHighlighted ==
    (MapCalled /\ error = "none") =>
        /\ \A i \in 1..Len(markers) :
              markers[i].html.color = TARGET_COLOR
                  <=> Unique(args.data)[i] = args.target_well_label
        /\ Cardinality(TargetColored) <= 1

\* C9: for a table with no rows the call raises from the count check of the
\* coordinate generator (number = 0), no marker is added and no file written.
MapEmptyTableRaises ==
    (MapCalled /\ Len(args.data) = 0) =>
        /\ error = "AssertionError"
        /\ call.made /\ call.number = 0
        /\ markers = <<>>
        /\ files = <<>>
        /\ printed = <<>>

MapEmptyTableRaisesWitness ==
    /\ MapCalled /\ Len(args.data) = 0
    /\ error = "AssertionError"
    /\ rng = rngBefore

====
